---------------------------- MODULE Spec2Model ----------------------------
(***************************************************************************)
(* Model of fprime.fbuild.interaction (src/src/fprime/fbuild/interaction.py) *)
(* : the build-list locator, the build-list mutators, the generated-artifact *)
(* merger, the unit-test relocator and the new_component / new_port flows.   *)
(*                                                                           *)
(* Files are sequences of tokens; the token "\n" ends a line.  Directories   *)
(* are absolute paths, written as sequences of names; <<>> is "/".           *)
(***************************************************************************)
EXTENDS Integers, Sequences, FiniteSets, TLC

\* ------------------------------------------------------------------ bounds
MaxDepth == 3
MaxMarks == 2
MaxFileLen == 6
MaxCalls == 3
MaxBody == 2
MaxPortLen == 5
MaxWord == 2
MaxTries == 2

\* ------------------------------------------------------------- path model
Names == {"a", "b"}
Dirs == UNION {[1..n -> Names] : n \in 0..MaxDepth}
NoneP == <<"None">>

\* pathlib's Path.parent: the parent of "/" is "/" itself
Parent(p) == IF Len(p) = 0 THEN p ELSE SubSeq(p, 1, Len(p) - 1)

IsPrefix(p, q) == Len(p) <= Len(q) /\ SubSeq(q, 1, Len(p)) = p

RECURSIVE Ancestors(_)
Ancestors(p) == IF Len(p) = 0 THEN {p} ELSE {p} \cup Ancestors(Parent(p))

\* ------------------------------------------------------------- file model
NL == "\n"

\* file.readlines(): the lines of a file, each with its terminator; only the
\* last line may lack one
RECURSIVE ReadLinesFrom(_, _, _)
ReadLinesFrom(content, i, cur) ==
    IF i > Len(content)
    THEN IF cur = <<>> THEN <<>> ELSE <<cur>>
    ELSE IF content[i] = NL
         THEN <<Append(cur, NL)>> \o ReadLinesFrom(content, i + 1, <<>>)
         ELSE ReadLinesFrom(content, i + 1, Append(cur, content[i]))

ReadLines(content) == ReadLinesFrom(content, 1, <<>>)

\* "".join(lines)
RECURSIVE Join(_)
Join(ls) == IF ls = <<>> THEN <<>> ELSE Head(ls) \o Join(Tail(ls))

Range(f) == {f[i] : i \in DOMAIN f}

VARIABLES flow, pc, exc,
          component_dir, deployment, proj_root, cmakeDirs,
          test_path, pass, examined, found,
          cmake, lines, index, prompts, writes, atc_ret, orig, first, calls,
          accepted,
          unitFiles, unitOrig, dirCommon, hpp_dest, cpp_dest, stubs, gen,
          buildLog, ri_ret,
          rootArtifacts, utFiles, testTree,
          compCreated, log, nc_ret,
          portCmake, apLines, apIndex, ap_ret,
          cwdXml, portDir, dirXml, xmlOrig, np_ret,
          apOrig, apCalls, apAccepted,
          word, vn_ret,
          port_name, short_description, dir_name, string_arg_number,
          arg_number, values, reprompts

locVars == <<component_dir, deployment, proj_root, cmakeDirs,
             test_path, pass, examined, found>>
atcVars == <<cmake, lines, index, prompts, writes, atc_ret, orig, first, calls,
             accepted>>
riVars == <<unitFiles, unitOrig, dirCommon, hpp_dest, cpp_dest, stubs, gen,
            buildLog, ri_ret>>
utVars == <<rootArtifacts, utFiles, testTree>>
ncVars == <<compCreated, log, nc_ret>>
apcVars == <<portCmake, apLines, apIndex, ap_ret>>
npVars == <<cwdXml, portDir, dirXml, xmlOrig, np_ret>>
aphVars == <<apOrig, apCalls, apAccepted>>
vnVars == <<word, vn_ret>>
gpVars == <<port_name, short_description, dir_name, string_arg_number,
            arg_number, values, reprompts>>
vars == <<flow, pc, exc, locVars, atcVars, riVars, utVars, ncVars, apcVars,
          npVars, aphVars, vnVars, gpVars>>

\* what the actions of one function leave alone
inVars == <<vnVars, gpVars>>
notLoc == <<atcVars, riVars, utVars, ncVars, apcVars, npVars, aphVars, inVars>>
notAtc == <<locVars, riVars, utVars, ncVars, apcVars, npVars, aphVars, inVars>>
notRi == <<locVars, atcVars, utVars, ncVars, apcVars, npVars, aphVars, inVars>>
notUt == <<locVars, atcVars, ncVars, apcVars, npVars, aphVars, inVars>>
notNc == <<apcVars, npVars, aphVars, inVars>>
notNp == <<riVars, utVars, compCreated, log, nc_ret, aphVars, inVars>>
notApc == <<locVars, atcVars, riVars, utVars, ncVars, npVars, inVars>>

LocIdle ==
    /\ component_dir = NoneP
    /\ deployment = NoneP
    /\ proj_root = NoneP
    /\ cmakeDirs = {}
    /\ test_path = NoneP
    /\ pass = 0
    /\ examined = {}
    /\ found = NoneP

Unset == <<"unset">>

AtcLocals ==
    /\ lines = <<>>
    /\ index = 0
    /\ prompts = 0
    /\ writes = 0
    /\ atc_ret = "none"
    /\ first = Unset
    /\ calls = 0
    /\ accepted = 0

AtcIdle == cmake = <<>> /\ orig = <<>> /\ AtcLocals

Absent == <<"absent">>
NoStubs == [hpp |-> Absent, cpp |-> Absent]

RiLocals ==
    /\ hpp_dest = "none"
    /\ cpp_dest = "none"
    /\ stubs = NoStubs
    /\ gen = NoStubs
    /\ buildLog = <<>>
    /\ ri_ret = "none"

RiIdle ==
    /\ unitFiles = <<>>
    /\ unitOrig = <<>>
    /\ dirCommon = FALSE
    /\ RiLocals

UtIdle ==
    /\ rootArtifacts = {}
    /\ utFiles = {}
    /\ testTree = "none"

NcIdle ==
    /\ compCreated = FALSE
    /\ log = <<>>
    /\ nc_ret = "none"

ApcLocals ==
    /\ apLines = <<>>
    /\ apIndex = 0
    /\ ap_ret = "none"
    /\ apCalls = 0
    /\ apAccepted = 0

NpIdle ==
    /\ portCmake = Absent
    /\ apOrig = Absent
    /\ ApcLocals
    /\ cwdXml = Absent
    /\ portDir = "none"
    /\ dirXml = Absent
    /\ xmlOrig = [cwd |-> Absent, dir |-> Absent]
    /\ np_ret = "none"

VnIdle == word = <<>> /\ vn_ret = "none"

\* a local name that is not bound yet
Unbound == <<"unbound">>
ArgUnbound == -1

NoValues ==
    [port_name |-> Unbound, short_description |-> Unbound,
     dir_name |-> Unbound, arg_number |-> ArgUnbound]

GpLocals ==
    /\ port_name = Unbound
    /\ short_description = Unbound
    /\ dir_name = Unbound
    /\ string_arg_number = Unbound
    /\ arg_number = ArgUnbound
    /\ values = NoValues
    /\ reprompts = 0

InIdle == VnIdle /\ GpLocals

\* ---------------------------------------------- find_nearest_cmake_lists
\* line 199: the list of (start, end) pairs is built before the loop runs, so
\* proj_root.parent is evaluated even when proj_root is None
PassListRaises(root) == root = NoneP

\* line 199: the start directory of each pass
PassStart(p, cdir, dep) == IF p = 1 THEN Parent(cdir) ELSE dep

\* line 200: the loop condition; both passes compare with proj_root.parent
\* (end_path is bound by the for statement and never read)
WalkContinues(tp, root) == root # NoneP /\ tp # Parent(root)

\* line 202: cmake_list_file.is_file()
IsFile(tp, marked) == tp \in marked

FnStart ==
    /\ pc = "fn_start"
    /\ IF PassListRaises(proj_root)
       THEN /\ pc' = "raised"
            /\ exc' = "AttributeError"
            /\ UNCHANGED <<test_path, pass>>
       ELSE /\ pc' = "fn_test"
            /\ pass' = 1
            /\ test_path' = PassStart(1, component_dir, deployment)
            /\ UNCHANGED exc
    /\ UNCHANGED <<flow, notLoc, component_dir, deployment, proj_root, cmakeDirs,
                   examined, found>>

FnTest ==
    /\ pc = "fn_test"
    /\ IF WalkContinues(test_path, proj_root)
       THEN /\ pc' = "fn_body"
            /\ UNCHANGED <<test_path, pass, found>>
       ELSE IF pass = 1
            THEN /\ pass' = 2
                 /\ test_path' = PassStart(2, component_dir, deployment)
                 /\ pc' = "fn_test"
                 /\ UNCHANGED found
            ELSE /\ found' = NoneP
                 /\ pc' = "fn_ret"
                 /\ UNCHANGED <<test_path, pass>>
    /\ UNCHANGED <<flow, notLoc, exc, component_dir, deployment, proj_root, cmakeDirs,
                   examined>>

FnBody ==
    /\ pc = "fn_body"
    /\ examined' = examined \cup {<<pass, test_path>>}
    /\ IF IsFile(test_path, cmakeDirs)
       THEN /\ found' = test_path
            /\ pc' = "fn_ret"
            /\ UNCHANGED test_path
       ELSE /\ test_path' = Parent(test_path)
            /\ pc' = "fn_test"
            /\ UNCHANGED found
    /\ UNCHANGED <<flow, notLoc, exc, component_dir, deployment, proj_root, cmakeDirs,
                   pass>>

\* the directories a call can look at
Reachable(cdir, dep) == Ancestors(Parent(cdir)) \cup Ancestors(dep)

InitLocator ==
    /\ flow = "find_nearest_cmake_lists"
    /\ pc = "fn_start"
    /\ exc = "none"
    /\ component_dir \in Dirs
    /\ deployment \in Dirs
    /\ proj_root \in Dirs \cup {NoneP}
    /\ cmakeDirs \in {S \in SUBSET Reachable(component_dir, deployment) :
                          Cardinality(S) <= MaxMarks}
    /\ test_path = NoneP
    /\ pass = 0
    /\ examined = {}
    /\ found = NoneP
    /\ AtcIdle
    /\ RiIdle
    /\ UtIdle
    /\ NcIdle
    /\ NpIdle
    /\ InIdle

NextLocator == FnStart \/ FnTest \/ FnBody

SpecLocator == InitLocator /\ [][NextLocator]_vars

\* the interpreter keeps executing a running loop
FairSpecLocator == SpecLocator /\ WF_vars(NextLocator)

\* ------------------------------------------------------------ add_to_cmake
\* tokens of a build-list file: "M" is an inclusion directive of another
\* path, "D" the text of the directive for comp_path, "T" text without the
\* marker (the topology inclusion), NL the line terminator
Tokens == {"M", "D", "T", NL}
CmakeFiles == UNION {[1..n -> Tokens] : n \in 0..MaxFileLen}

\* line 92: "add_fprime_subdirectory" in line
HasMarker(line) == \E i \in DOMAIN line : line[i] \in {"M", "D"}

\* lines 104-106: the directive text, with its line terminator
Addition == <<"D", NL>>

\* lines 92-93: index of the first line with the marker, from i (1-based);
\* 0 when the scan runs off the list (IndexError)
RECURSIVE FirstMarker(_, _)
FirstMarker(ls, i) ==
    IF i > Len(ls) THEN 0
    ELSE IF HasMarker(ls[i]) THEN i ELSE FirstMarker(ls, i + 1)

\* lines 94-95: index of the first line without the marker, from i; 0 when
\* the scan runs off the list (IndexError)
RECURSIVE RunEnd(_, _)
RunEnd(ls, i) ==
    IF i > Len(ls) THEN 0
    ELSE IF HasMarker(ls[i]) THEN RunEnd(ls, i + 1) ELSE i

\* a scan that stops at the first marker line
ScanIndexNoRun(ls) == FirstMarker(ls, 1)

\* a scan that falls back to the end of the file when no line has the marker
ScanIndexOrEnd(ls) ==
    IF FirstMarker(ls, 1) = 0 THEN Len(ls) + 1
    ELSE RunEnd(ls, FirstMarker(ls, 1))

\* lines 91-95: the insertion index, 0 for IndexError
ScanIndex(ls) ==
    IF FirstMarker(ls, 1) = 0 THEN 0 ELSE RunEnd(ls, FirstMarker(ls, 1))

\* a mutator without the duplicate check
AlreadyAddedNever(ls) == FALSE

\* line 107: addition in lines
AlreadyAdded(ls) == Addition \in Range(ls)

\* line 110: lines.insert(index, addition), index counted from 1 here
InsertAt(ls, k, x) == SubSeq(ls, 1, k - 1) \o <<x>> \o SubSeq(ls, k, Len(ls))

\* lines 89-95: read the file and scan for the insertion point
AtcScan ==
    /\ pc = "atc_start"
    /\ lines' = ReadLines(cmake)
    /\ IF ScanIndex(ReadLines(cmake)) = 0
       THEN /\ pc' = "raised"
            /\ exc' = "IndexError"
            /\ UNCHANGED index
       ELSE /\ pc' = "atc_confirm"
            /\ index' = ScanIndex(ReadLines(cmake))
            /\ UNCHANGED exc
    /\ UNCHANGED <<flow, notAtc, cmake, prompts, writes, atc_ret, orig, first,
                   calls, accepted>>

\* a mutator that inserts without looking at the answer
LinesAfterUnasked(ok, ls, idx) ==
    IF AlreadyAdded(ls) THEN ls ELSE InsertAt(ls, idx, Addition)

\* lines 97-110: the list of lines after the confirmation: untouched on
\* decline and when the directive is already a line of the file
LinesAfter(ok, ls, idx) ==
    IF ok /\ ~AlreadyAdded(ls) THEN InsertAt(ls, idx, Addition) ELSE ls

\* lines 97-113: the confirmation, the duplicate check and the write
AtcConfirm ==
    /\ pc = "atc_confirm"
    /\ prompts' = prompts + 1
    /\ calls' = calls + 1
    /\ \E ans \in BOOLEAN :
         /\ atc_ret' = IF ans THEN "True" ELSE "False"
         /\ accepted' = IF ans THEN accepted + 1 ELSE accepted
         /\ lines' = LinesAfter(ans, lines, index)
         /\ IF LinesAfter(ans, lines, index) # lines
            THEN /\ cmake' = Join(LinesAfter(ans, lines, index))
                 /\ writes' = writes + 1
            ELSE UNCHANGED <<cmake, writes>>
         /\ first' = IF ans /\ first = Unset THEN cmake' ELSE first
    /\ pc' = "atc_ret"
    /\ UNCHANGED <<flow, exc, notAtc, index, orig>>

\* a further call on the same file with the same component path
AtcAgain ==
    /\ flow = "add_to_cmake"
    /\ pc = "atc_ret"
    /\ calls < MaxCalls
    /\ pc' = "atc_start"
    /\ UNCHANGED <<flow, exc, notAtc, cmake, lines, index, prompts, writes,
                   atc_ret, orig, first, calls, accepted>>

InitCmake ==
    /\ flow = "add_to_cmake"
    /\ pc = "atc_start"
    /\ exc = "none"
    /\ LocIdle
    /\ cmake \in CmakeFiles
    /\ orig = cmake
    /\ AtcLocals
    /\ RiIdle
    /\ UtIdle
    /\ NcIdle
    /\ NpIdle
    /\ InIdle

NextCmake == AtcScan \/ AtcConfirm \/ AtcAgain

SpecCmake == InitCmake /\ [][NextCmake]_vars

\* ---------------------------------------------------------------- run_impl
\* line 76: lines[11:]
HeaderLines == 11

HppNames == {"A.hpp", "B.hpp"}
CppNames == {"A.cpp", "AB.cpp", "ACommon.cpp"}

\* len(name), the sort key of line 43 (all names share the directory prefix)
NameLen(n) ==
    CASE n = "A.cpp" -> 5 [] n = "AB.cpp" -> 6 [] n = "ACommon.cpp" -> 11
      [] n = "A.hpp" -> 5 [] n = "B.hpp" -> 5

\* line 52: "Common" in name, where name is the path the glob returned: the
\* unit directory followed by the file name
HasCommon(n, dirHas) == dirHas \/ n = "ACommon.cpp"

\* contents of a destination before the merge
DestContents == {<<>>, <<"d", NL>>, <<"d">>}

\* the orders in which glob may list the files S
GlobOrders(S) == {f \in [1..Cardinality(S) -> S] : Range(f) = S}

\* list.sort(key=len): a stable sort
RECURSIVE InsertByLen(_, _)
InsertByLen(sorted, x) ==
    IF sorted = <<>> THEN <<x>>
    ELSE IF NameLen(Head(sorted)) <= NameLen(x)
         THEN <<Head(sorted)>> \o InsertByLen(Tail(sorted), x)
         ELSE <<x>> \o sorted

RECURSIVE SortByLen(_)
SortByLen(ns) ==
    IF ns = <<>> THEN <<>>
    ELSE InsertByLen(SortByLen(SubSeq(ns, 1, Len(ns) - 1)), ns[Len(ns)])

\* line 52: the candidates with "Common" in their path, in list order
RECURSIVE CommonOf(_, _)
CommonOf(ns, dirHas) ==
    IF ns = <<>> THEN <<>>
    ELSE IF HasCommon(Head(ns), dirHas)
         THEN <<Head(ns)>> \o CommonOf(Tail(ns), dirHas)
         ELSE CommonOf(Tail(ns), dirHas)

\* line 54, on the sorted list
CppDest(sorted, dirHas) ==
    IF CommonOf(sorted, dirHas) # <<>>
    THEN Head(CommonOf(sorted, dirHas)) ELSE Head(sorted)

\* a generated stub: n lines, line i holding the token kind-i; the last line
\* unterminated when ~nl
StubTok(kind, i) == kind \o ToString(i)

RECURSIVE StubContent(_, _, _)
StubContent(kind, n, nl) ==
    IF n = 0 THEN <<>>
    ELSE StubContent(kind, n - 1, TRUE)
           \o (IF nl THEN <<StubTok(kind, n), NL>> ELSE <<StubTok(kind, n)>>)

\* the stub lengths tried: none, and around the length of the header
StubLens(body) == {0} \cup ((HeaderLines - 1)..(HeaderLines + body))

\* what build.execute may leave for one kind of stub
StubOutcomes(kind) ==
    {Absent} \cup {StubContent(kind, n, nl) :
                      n \in StubLens(MaxBody), nl \in BOOLEAN}

\* the stubs tried under new_component: none, one with a body line, one
\* shorter than the header
NcStubs(kind) ==
    {Absent, StubContent(kind, HeaderLines + 1, TRUE),
     StubContent(kind, HeaderLines - 1, FALSE)}

\* the stubs build.execute may leave, by the flow that called run_impl
ImplStubs(kind) ==
    IF flow = "new_component" THEN NcStubs(kind) ELSE StubOutcomes(kind)

\* a slice that keeps the last line of the header
DropHeaderShort(ls) == SubSeq(ls, HeaderLines, Len(ls))

\* line 76: lines = lines[11:]
DropHeader(ls) == SubSeq(ls, HeaderLines + 1, Len(ls))

\* lines 74-78: the destination after the stub is appended to it
Merged(dest, stub) == dest \o Join(DropHeader(ReadLines(stub)))

\* lines 37-54: find the destinations
RiGlob ==
    /\ pc = "ri_start"
    /\ \E ho \in GlobOrders(DOMAIN unitFiles \cap HppNames),
          co \in GlobOrders(DOMAIN unitFiles \cap CppNames) :
         IF ho = <<>> \/ co = <<>>
         THEN /\ ri_ret' = "False"
              /\ pc' = "ri_ret"
              /\ UNCHANGED <<hpp_dest, cpp_dest>>
         ELSE /\ hpp_dest' = ho[1]
              /\ cpp_dest' = CppDest(SortByLen(co), dirCommon)
              /\ pc' = "ri_confirm"
              /\ UNCHANGED ri_ret
    /\ UNCHANGED <<flow, exc, notRi, unitFiles, unitOrig, dirCommon, stubs, gen,
                   buildLog>>

\* lines 56-59: the confirmation
RiConfirm ==
    /\ pc = "ri_confirm"
    /\ \E ans \in BOOLEAN :
         IF ans
         THEN pc' = "ri_execute" /\ UNCHANGED ri_ret
         ELSE pc' = "ri_ret" /\ ri_ret' = "False"
    /\ UNCHANGED <<flow, exc, notRi, unitFiles, unitOrig, dirCommon, hpp_dest,
                   cpp_dest, stubs, gen, buildLog>>

\* line 60: build.execute of the impl target: it fails, or leaves the stubs
\* it generated in the unit directory
RiExecute ==
    /\ pc = "ri_execute"
    /\ \/ /\ pc' = "raised"
          /\ exc' = "CMakeExecutionException"
          /\ UNCHANGED <<stubs, gen, buildLog>>
       \/ /\ \E hs \in ImplStubs("h"), cs \in ImplStubs("c") :
                /\ stubs' = [hpp |-> hs, cpp |-> cs]
                /\ gen' = [hpp |-> hs, cpp |-> cs]
          /\ buildLog' = Append(buildLog, "impl")
          /\ pc' = "ri_merge"
          /\ UNCHANGED exc
    /\ UNCHANGED <<flow, notRi, unitFiles, unitOrig, dirCommon, hpp_dest,
                   cpp_dest, ri_ret>>

\* a test that only fails when both stubs are missing
StubsMissingBoth(st) == st.hpp = Absent /\ st.cpp = Absent

\* line 65: not hpp_files_template or not cpp_files_template
StubsMissing(st) == st.hpp = Absent \/ st.cpp = Absent

\* lines 62-83: append each stub without its header, then remove the stubs
RiMerge ==
    /\ pc = "ri_merge"
    /\ IF StubsMissing(stubs)
       THEN /\ ri_ret' = "False"
            /\ UNCHANGED <<unitFiles, stubs>>
       ELSE /\ unitFiles' = [unitFiles EXCEPT
                                ![hpp_dest] = Merged(@, stubs.hpp),
                                ![cpp_dest] = Merged(@, stubs.cpp)]
            /\ stubs' = NoStubs
            /\ ri_ret' = "True"
    /\ pc' = "ri_ret"
    /\ UNCHANGED <<flow, exc, notRi, unitOrig, dirCommon, hpp_dest, cpp_dest,
                   gen, buildLog>>

\* the unit directories: any set of candidate files, each with some content
UnitDirs ==
    UNION {[S -> DestContents] : S \in SUBSET (HppNames \cup CppNames)}

InitImpl ==
    /\ flow = "run_impl"
    /\ pc = "ri_start"
    /\ exc = "none"
    /\ LocIdle
    /\ AtcIdle
    /\ unitFiles \in UnitDirs
    /\ unitOrig = unitFiles
    /\ dirCommon \in BOOLEAN
    /\ RiLocals
    /\ UtIdle
    /\ NcIdle
    /\ NpIdle
    /\ InIdle

NextImpl == RiGlob \/ RiConfirm \/ RiExecute \/ RiMerge

SpecImpl == InitImpl /\ [][NextImpl]_vars

\* -------------------------------------------------------------- regenerate
\* lines 116-123: the build directory must exist (else the invalid-build
\* condition is raised), then the cache refresh runs and may fail
RgRun ==
    /\ pc = "rg_start"
    /\ \E buildDirExists \in BOOLEAN, refreshFails \in BOOLEAN :
         IF ~buildDirExists
         THEN pc' = "raised" /\ exc' = "CMakeInvalidBuildException"
         ELSE IF refreshFails
              THEN pc' = "raised" /\ exc' = "CMakeExecutionException"
              ELSE pc' = "rg_ret" /\ UNCHANGED exc
    /\ UNCHANGED <<flow, locVars, atcVars, riVars, utVars, ncVars, apcVars,
                   npVars, aphVars, inVars>>

\* ---------------------------------------------------------- add_unit_tests
\* a list without the test entry point
TestFilesShort ==
    {"Tester.hpp", "Tester.cpp", "TesterBase.hpp", "TesterBase.cpp",
     "GTestBase.hpp", "GTestBase.cpp"}

\* lines 134-142
TestFiles == {"Tester.hpp", "Tester.cpp", "TesterBase.hpp", "TesterBase.cpp",
              "GTestBase.hpp", "GTestBase.cpp", "TestMain.cpp"}

\* lines 128-129 and 147-148: the confirmation; on decline the test tree is
\* removed (shutil.rmtree raises when there is none)
UtConfirm ==
    /\ pc = "ut_start"
    /\ \E ans \in BOOLEAN :
         IF ans
         THEN /\ pc' = "ut_execute"
              /\ UNCHANGED <<exc, utFiles, testTree>>
         ELSE IF testTree = "none"
              THEN /\ pc' = "raised"
                   /\ exc' = "FileNotFoundError"
                   /\ UNCHANGED <<utFiles, testTree>>
              ELSE /\ testTree' = "none"
                   /\ utFiles' = {}
                   /\ pc' = "ut_ret"
                   /\ UNCHANGED exc
    /\ UNCHANGED <<flow, notUt, riVars, rootArtifacts>>

UtGen == {{}, {"Tester.hpp"}, TestFiles}

\* what the build may leave in the unit root, by the flow that called
\* add_unit_tests: on its own, any of the artifacts and a file of another name
UtOutcomes ==
    IF flow = "new_component" THEN UtGen
    ELSE SUBSET (TestFiles \cup {"Other.cpp"})

\* lines 130-133: build.execute of the impl target with the ut flag: it
\* fails, or leaves the artifacts it generated in the unit root
UtExecute ==
    /\ pc = "ut_execute"
    /\ \/ /\ pc' = "raised"
          /\ exc' = "CMakeExecutionException"
          /\ UNCHANGED <<rootArtifacts, buildLog>>
       \/ /\ \E g \in UtOutcomes : rootArtifacts' = rootArtifacts \cup g
          /\ buildLog' = Append(buildLog, "impl-ut")
          /\ pc' = "ut_move"
          /\ UNCHANGED exc
    /\ UNCHANGED <<flow, notUt, unitFiles, unitOrig, dirCommon, hpp_dest,
                   cpp_dest, stubs, gen, ri_ret, utFiles, testTree>>

\* lines 143-146: every artifact of the fixed set found in the unit root is
\* renamed into test/ut; os.rename raises when that directory is missing
UtMove ==
    /\ pc = "ut_move"
    /\ IF rootArtifacts \cap TestFiles = {}
       THEN /\ pc' = "ut_ret"
            /\ UNCHANGED <<exc, rootArtifacts, utFiles>>
       ELSE IF testTree # "test/ut"
            THEN /\ pc' = "raised"
                 /\ exc' = "FileNotFoundError"
                 /\ UNCHANGED <<rootArtifacts, utFiles>>
            ELSE /\ rootArtifacts' = rootArtifacts \ TestFiles
                 /\ utFiles' = utFiles \cup (rootArtifacts \cap TestFiles)
                 /\ pc' = "ut_ret"
                 /\ UNCHANGED exc
    /\ UNCHANGED <<flow, notUt, riVars, testTree>>

\* what the unit root may hold before the call
RootFiles == {"Tester.hpp", "TestMain.cpp", "Other.cpp"}

InitUnitTests ==
    /\ flow = "add_unit_tests"
    /\ pc = "ut_start"
    /\ exc = "none"
    /\ LocIdle
    /\ AtcIdle
    /\ RiIdle
    /\ rootArtifacts \in SUBSET RootFiles
    /\ testTree \in {"none", "test", "test/ut"}
    /\ utFiles \in IF testTree = "test/ut" THEN {{}, {"Old.cpp"}} ELSE {{}}
    /\ NcIdle
    /\ NpIdle
    /\ InIdle

NextUnitTests == UtConfirm \/ UtExecute \/ UtMove

SpecUnitTests == InitUnitTests /\ [][NextUnitTests]_vars

\* ----------------------------------------------------------- new_component
\* the classes an exception is an instance of
ExcClasses(e) ==
    CASE e = "CMakeInvalidBuildException" -> {e, "CMakeException"}
      [] e = "CMakeExecutionException" -> {e, "CMakeException"}
      [] e = "FileNotFoundError" -> {e, "OSError"}
      [] e = "FileExistsError" -> {e, "OSError"}
      [] OTHER -> {e}

\* lines 278-283 (and 471-476): the except clauses of the orchestrators
Caught(e) ==
    ExcClasses(e) \cap
        {"OutputDirExistsException", "CMakeExecutionException", "OSError"} # {}

\* a registration test that lets every result through
RegistrationOkAlways(r) == TRUE

\* line 252: add_to_cmake(...) returned a true value
RegistrationOk(r) == r = "True"

NcRoots == {NoneP, <<"a">>}
NcComponents == {<<"a", "b", "a">>, <<"b", "a">>}
NcDeployments == {<<"a">>, <<"a", "b">>, <<"a", "a">>}
NcCmakeDirs == {<<"a">>, <<"a", "b">>, <<"a", "a">>}
NcCmakeFiles ==
    {<<>>, <<"T", NL>>, <<"M", NL>>, <<"M", NL, "T", NL>>,
     <<"M", NL, "D", NL, "T", NL>>}
NcUnitDirs ==
    {("A.hpp" :> <<>>) @@ ("A.cpp" :> <<>>),
     ("A.cpp" :> <<"d">>),
     ("A.hpp" :> <<"d", NL>>) @@ ("A.cpp" :> <<"d">>)
         @@ ("ACommon.cpp" :> <<"d">>)}

\* lines 212-251: the template is instantiated (cookiecutter raises when the
\* output directory exists); without a project root the flow ends here
NcCreate ==
    /\ flow = "new_component"
    /\ pc = "nc_start"
    /\ \/ /\ pc' = "raised"
          /\ exc' = "OutputDirExistsException"
          /\ UNCHANGED <<component_dir, unitFiles, unitOrig, dirCommon,
                         testTree, compCreated, log, nc_ret>>
       \/ /\ component_dir' \in NcComponents
          /\ unitFiles' \in NcUnitDirs
          /\ unitOrig' = unitFiles'
          /\ dirCommon' \in BOOLEAN
          /\ testTree' \in {"none", "test", "test/ut"}
          /\ compCreated' = TRUE
          /\ log' = Append(log, "created")
          /\ IF proj_root = NoneP
             THEN pc' = "nc_done" /\ nc_ret' = "0"
             ELSE pc' = "fn_start" /\ UNCHANGED nc_ret
          /\ UNCHANGED exc
    /\ UNCHANGED <<flow, notNc, atcVars, deployment, proj_root, cmakeDirs, test_path,
                   pass, examined, found, hpp_dest, cpp_dest, stubs, gen,
                   buildLog, ri_ret, rootArtifacts, utFiles>>

\* lines 252-260, first half: no build-list file ends the flow; otherwise
\* the component path relative to the file's directory is computed
\* (relative_to raises ValueError when it is no ancestor) and add_to_cmake
\* is called
NcRegister ==
    /\ flow = "new_component"
    /\ pc = "fn_ret"
    /\ IF found = NoneP
       THEN /\ pc' = "nc_done"
            /\ nc_ret' = "0"
            /\ UNCHANGED <<exc, log>>
       ELSE IF ~IsPrefix(found, component_dir)
            THEN /\ pc' = "raised"
                 /\ exc' = "ValueError"
                 /\ UNCHANGED <<nc_ret, log>>
            ELSE /\ pc' = "atc_start"
                 /\ log' = Append(log, "register")
                 /\ UNCHANGED <<exc, nc_ret>>
    /\ UNCHANGED <<flow, notNc, locVars, atcVars, riVars, utVars, compCreated>>

\* lines 252-261, second half: a false result of add_to_cmake ends the flow
\* with the could-not-register message; otherwise regenerate is called
NcAfterRegister ==
    /\ flow = "new_component"
    /\ pc = "atc_ret"
    /\ IF RegistrationOk(atc_ret)
       THEN /\ pc' = "rg_start"
            /\ log' = Append(log, "registered")
            /\ UNCHANGED nc_ret
       ELSE /\ pc' = "nc_done"
            /\ nc_ret' = "0"
            /\ UNCHANGED log
    /\ UNCHANGED <<flow, notNc, exc, locVars, atcVars, riVars, utVars, compCreated>>

\* lines 261-263: regenerate returned; run_impl is called
NcAfterRegenerate ==
    /\ flow = "new_component"
    /\ pc = "rg_ret"
    /\ pc' = "ri_start"
    /\ log' = log \o <<"regenerated", "impl">>
    /\ UNCHANGED <<flow, notNc, exc, locVars, atcVars, riVars, utVars, compCreated,
                   nc_ret>>

\* lines 263-271: a false result of run_impl ends the flow; otherwise
\* add_unit_tests is called
NcAfterImpl ==
    /\ flow = "new_component"
    /\ pc = "ri_ret"
    /\ IF ri_ret = "True"
       THEN /\ pc' = "ut_start"
            /\ log' = log \o <<"implemented", "tests">>
            /\ UNCHANGED nc_ret
       ELSE /\ pc' = "nc_done"
            /\ nc_ret' = "0"
            /\ UNCHANGED log
    /\ UNCHANGED <<flow, notNc, exc, locVars, atcVars, riVars, utVars, compCreated>>

\* lines 272-277
NcFinish ==
    /\ flow = "new_component"
    /\ pc = "ut_ret"
    /\ pc' = "nc_done"
    /\ nc_ret' = "0"
    /\ log' = Append(log, "scaffolded")
    /\ UNCHANGED <<flow, notNc, exc, locVars, atcVars, riVars, utVars, compCreated>>

\* lines 278-284: a caught exception is reported and 1 is returned; any
\* other exception leaves new_component
NcCatch ==
    /\ flow = "new_component"
    /\ pc = "raised"
    /\ IF Caught(exc)
       THEN pc' = "nc_done" /\ nc_ret' = "1"
       ELSE pc' = "propagated" /\ UNCHANGED nc_ret
    /\ UNCHANGED <<flow, notNc, exc, locVars, atcVars, riVars, utVars, compCreated,
                   log>>

InitNewComponent ==
    /\ flow = "new_component"
    /\ pc = "nc_start"
    /\ exc = "none"
    /\ component_dir = NoneP
    /\ deployment \in NcDeployments
    /\ proj_root \in NcRoots
    /\ cmakeDirs \in SUBSET NcCmakeDirs
    /\ test_path = NoneP
    /\ pass = 0
    /\ examined = {}
    /\ found = NoneP
    /\ cmake \in NcCmakeFiles
    /\ orig = cmake
    /\ AtcLocals
    /\ RiIdle
    /\ UtIdle
    /\ NcIdle
    /\ NpIdle
    /\ InIdle

NextNewComponent ==
    \/ NcCreate \/ FnStart \/ FnTest \/ FnBody
    \/ NcRegister \/ AtcScan \/ AtcConfirm \/ NcAfterRegister
    \/ RgRun \/ NcAfterRegenerate
    \/ RiGlob \/ RiConfirm \/ RiExecute \/ RiMerge \/ NcAfterImpl
    \/ UtConfirm \/ UtExecute \/ UtMove \/ NcFinish
    \/ NcCatch

SpecNewComponent == InitNewComponent /\ [][NextNewComponent]_vars

\* ------------------------------------------------------- add_port_to_cmake
\* tokens of a port build-list file: "S" is the text set(SOURCE_FILES, "E"
\* the text of the new entry, "X" any other text, NL the line terminator
PortMarkerLine == <<"S", NL>>

\* line 169
PortAddition == <<"E", NL>>

\* a scan that keeps the last line equal to the marker line
RECURSIVE MarkerIndexLast(_, _)
MarkerIndexLast(ls, i) ==
    IF i > Len(ls) THEN 0
    ELSE IF MarkerIndexLast(ls, i + 1) # 0 THEN MarkerIndexLast(ls, i + 1)
         ELSE IF ls[i] = PortMarkerLine THEN i ELSE 0

\* lines 156-160: index of the first line equal to the marker line, from i;
\* 0 when the scan runs off the list (IndexError)
RECURSIVE MarkerIndex(_, _)
MarkerIndex(ls, i) ==
    IF i > Len(ls) THEN 0
    ELSE IF ls[i] = PortMarkerLine THEN i ELSE MarkerIndex(ls, i + 1)

\* lines 154-161
ApcScan ==
    /\ pc = "apc_start"
    /\ apLines' = ReadLines(portCmake)
    /\ IF MarkerIndex(ReadLines(portCmake), 1) = 0
       THEN /\ pc' = "raised"
            /\ exc' = "IndexError"
            /\ UNCHANGED apIndex
       ELSE /\ pc' = "apc_confirm"
            /\ apIndex' = MarkerIndex(ReadLines(portCmake), 1) + 1
            /\ UNCHANGED exc
    /\ UNCHANGED <<flow, notApc, portCmake, ap_ret, aphVars>>

\* lines 162-173
ApcConfirm ==
    /\ pc = "apc_confirm"
    /\ apCalls' = apCalls + 1
    /\ \E ans \in BOOLEAN :
         IF ans
         THEN /\ apLines' = InsertAt(apLines, apIndex, PortAddition)
              /\ portCmake' = Join(InsertAt(apLines, apIndex, PortAddition))
              /\ ap_ret' = "True"
              /\ apAccepted' = apAccepted + 1
         ELSE /\ ap_ret' = "False"
              /\ UNCHANGED <<apLines, portCmake, apAccepted>>
    /\ pc' = "apc_ret"
    /\ UNCHANGED <<flow, exc, notApc, apIndex, apOrig>>

\* a further call on the same file with the same entry
ApcAgain ==
    /\ flow = "add_port_to_cmake"
    /\ pc = "apc_ret"
    /\ apCalls < MaxCalls
    /\ pc' = "apc_start"
    /\ UNCHANGED <<flow, exc, notApc, apcVars, aphVars>>

PortTokens == {"S", "E", "X", NL}
PortFiles == UNION {[1..n -> PortTokens] : n \in 0..MaxPortLen}

InitPortCmake ==
    /\ flow = "add_port_to_cmake"
    /\ pc = "apc_start"
    /\ exc = "none"
    /\ LocIdle
    /\ AtcIdle
    /\ RiIdle
    /\ UtIdle
    /\ NcIdle
    /\ portCmake \in PortFiles
    /\ apOrig = portCmake
    /\ ApcLocals
    /\ cwdXml = Absent
    /\ portDir = "dir"
    /\ dirXml = Absent
    /\ xmlOrig = [cwd |-> Absent, dir |-> Absent]
    /\ np_ret = "none"
    /\ InIdle

NextPortCmake == ApcScan \/ ApcConfirm \/ ApcAgain

SpecPortCmake == InitPortCmake /\ [][NextPortCmake]_vars

\* ---------------------------------------------------------------- new_port
\* lines 417-422: the rendered port definition
NewXml == <<"new">>
OldXml == <<"old">>

\* lines 428-432: the rendered build-list file of a new port directory
TemplateCmake == <<"S", NL, "E", NL, "X", NL>>

NpComponents == {<<"a", "b">>, <<"a", "a", "b">>}
NpDeployments == {<<"a">>, <<"b">>}
NpCmakeDirs == {<<"a">>, <<"a", "a">>}
NpPortCmakes ==
    {Absent, <<>>, <<"X", NL>>, <<"S", NL, "X", NL>>, <<"X", NL, "S", NL>>}

\* line 396: get_port_input returns the parameters, or fails on an argument
\* count that is not a number (arg_number is then never bound)
NpInput ==
    /\ flow = "new_port"
    /\ pc = "np_start"
    /\ \E numeric \in BOOLEAN :
         IF numeric
         THEN pc' = "np_write" /\ UNCHANGED exc
         ELSE pc' = "raised" /\ exc' = "UnboundLocalError"
    /\ UNCHANGED <<flow, locVars, atcVars, apcVars, npVars, notNp>>

\* os.rename onto an existing file: replaced on POSIX, FileExistsError on
\* Windows
RenameOutcomes(target) ==
    IF target = Absent THEN {"moved"} ELSE {"moved", "FileExistsError"}

\* lines 405-434: the namespace (relative_to raises ValueError outside the
\* deployment), the port definition written in the working directory, the
\* port directory made, the file moved into it, and the port build-list file
\* rendered when there is none
NpWrite ==
    /\ flow = "new_port"
    /\ pc = "np_write"
    /\ IF ~IsPrefix(deployment, component_dir)
       THEN /\ pc' = "raised"
            /\ exc' = "ValueError"
            /\ UNCHANGED <<cwdXml, portDir, dirXml, portCmake>>
       ELSE IF portDir = "file"
            THEN /\ cwdXml' = NewXml
                 /\ pc' = "raised"
                 /\ exc' = "FileExistsError"
                 /\ UNCHANGED <<portDir, dirXml, portCmake>>
            ELSE \E r \in RenameOutcomes(dirXml) :
                   /\ portDir' = "dir"
                   /\ IF r = "moved"
                      THEN /\ cwdXml' = Absent
                           /\ dirXml' = NewXml
                           /\ UNCHANGED exc
                           /\ IF portCmake = Absent
                              THEN /\ portCmake' = TemplateCmake
                                   /\ pc' = "np_root"
                              ELSE /\ pc' = "apc_start"
                                   /\ UNCHANGED portCmake
                      ELSE /\ cwdXml' = NewXml
                           /\ pc' = "raised"
                           /\ exc' = r
                           /\ UNCHANGED <<dirXml, portCmake>>
    /\ UNCHANGED <<flow, locVars, atcVars, notNp, apLines, apIndex, ap_ret,
                   xmlOrig, np_ret>>

\* line 434: the result of add_port_to_cmake is not looked at
NpAfterPortCmake ==
    /\ flow = "new_port"
    /\ pc = "apc_ret"
    /\ pc' = "np_root"
    /\ UNCHANGED <<flow, exc, locVars, atcVars, apcVars, npVars, notNp>>

\* lines 436-443
NpRoot ==
    /\ flow = "new_port"
    /\ pc = "np_root"
    /\ IF proj_root = NoneP
       THEN pc' = "np_done" /\ np_ret' = "0"
       ELSE pc' = "fn_start" /\ UNCHANGED np_ret
    /\ UNCHANGED <<flow, exc, locVars, atcVars, apcVars, notNp, cwdXml, portDir,
                   dirXml, xmlOrig>>

\* lines 444-453, first half
NpRegister ==
    /\ flow = "new_port"
    /\ pc = "fn_ret"
    /\ IF found = NoneP
       THEN pc' = "np_done" /\ np_ret' = "0" /\ UNCHANGED exc
       ELSE IF ~IsPrefix(found, component_dir)
            THEN pc' = "raised" /\ exc' = "ValueError" /\ UNCHANGED np_ret
            ELSE pc' = "atc_start" /\ UNCHANGED <<exc, np_ret>>
    /\ UNCHANGED <<flow, locVars, atcVars, apcVars, notNp, cwdXml, portDir,
                   dirXml, xmlOrig>>

\* lines 444-454, second half
NpAfterRegister ==
    /\ flow = "new_port"
    /\ pc = "atc_ret"
    /\ IF RegistrationOk(atc_ret)
       THEN pc' = "rg_start" /\ UNCHANGED np_ret
       ELSE pc' = "np_done" /\ np_ret' = "0"
    /\ UNCHANGED <<flow, exc, locVars, atcVars, apcVars, notNp, cwdXml, portDir,
                   dirXml, xmlOrig>>

\* lines 455-470
NpFinish ==
    /\ flow = "new_port"
    /\ pc = "rg_ret"
    /\ pc' = "np_done"
    /\ np_ret' = "0"
    /\ UNCHANGED <<flow, exc, locVars, atcVars, apcVars, notNp, cwdXml, portDir,
                   dirXml, xmlOrig>>

\* lines 471-477
NpCatch ==
    /\ flow = "new_port"
    /\ pc = "raised"
    /\ IF Caught(exc)
       THEN pc' = "np_done" /\ np_ret' = "1"
       ELSE pc' = "propagated" /\ UNCHANGED np_ret
    /\ UNCHANGED <<flow, exc, locVars, atcVars, apcVars, notNp, cwdXml, portDir,
                   dirXml, xmlOrig>>

InitNewPort ==
    /\ flow = "new_port"
    /\ pc = "np_start"
    /\ exc = "none"
    /\ component_dir \in NpComponents
    /\ deployment \in NpDeployments
    /\ proj_root \in NcRoots
    /\ cmakeDirs \in SUBSET NpCmakeDirs
    /\ test_path = NoneP
    /\ pass = 0
    /\ examined = {}
    /\ found = NoneP
    /\ cmake \in NcCmakeFiles
    /\ orig = cmake
    /\ AtcLocals
    /\ RiIdle
    /\ UtIdle
    /\ NcIdle
    /\ cwdXml \in {Absent, OldXml}
    /\ portDir \in {"none", "file", "dir"}
    /\ dirXml \in IF portDir = "dir" THEN {Absent, OldXml} ELSE {Absent}
    /\ portCmake \in IF portDir = "dir" THEN NpPortCmakes ELSE {Absent}
    /\ apOrig = portCmake
    /\ InIdle
    /\ xmlOrig = [cwd |-> cwdXml, dir |-> dirXml]
    /\ ApcLocals
    /\ np_ret = "none"

NextNewPort ==
    \/ NpInput \/ NpWrite \/ ApcScan \/ ApcConfirm \/ NpAfterPortCmake
    \/ NpRoot \/ FnStart \/ FnTest \/ FnBody
    \/ NpRegister \/ AtcScan \/ AtcConfirm \/ NpAfterRegister
    \/ RgRun \/ NpFinish \/ NpCatch

SpecNewPort == InitNewPort /\ [][NextNewPort]_vars

\* ----------------------------------------------------------- is_valid_name
\* a word is the sequence of its characters

\* lines 288-311, in the order of the list; "grave" stands for the grave
\* accent, which cannot be written in a string here
invalid_characters ==
    <<"#", "%", "&", "{", "}", "/", "\\", "<", ">", "*", "?", " ", "$", "!",
      "'", "\"", ":", "@", "+", "grave", "|", "=">>

\* a validator that reports the leftmost disallowed character of the word
RECURSIVE IsValidNameLeftmost(_)
IsValidNameLeftmost(w) ==
    IF w = <<>> THEN "valid"
    ELSE IF Head(w) \in Range(invalid_characters) THEN Head(w)
         ELSE IsValidNameLeftmost(Tail(w))

\* lines 312-315: the loop over the list, from entry k
RECURSIVE ScanInvalid(_, _)
ScanInvalid(w, k) ==
    IF k > Len(invalid_characters) THEN "valid"
    ELSE IF invalid_characters[k] \in Range(w) THEN invalid_characters[k]
         ELSE ScanInvalid(w, k + 1)

\* lines 287-315
IsValidName(w) == ScanInvalid(w, 1)

GoodName == <<"g", "o", "o", "d", "_", "n", "a", "m", "e">>
BadName == <<"b", "a", "d", " ", "n", "a", "m", "e">>
SlashName == <<"a", "/", "b">>

\* the words tried: every word of up to MaxWord characters over the
\* disallowed characters and two allowed ones, and three longer names
Alphabet == Range(invalid_characters) \cup {"a", "_"}
Words ==
    UNION {[1..n -> Alphabet] : n \in 0..MaxWord}
        \cup {GoodName, BadName, SlashName}

\* lines 287-315: one call
VnCall ==
    /\ pc = "vn_start"
    /\ vn_ret' = IsValidName(word)
    /\ pc' = "vn_ret"
    /\ UNCHANGED <<flow, exc, word, locVars, atcVars, riVars, utVars, ncVars,
                   apcVars, npVars, aphVars, gpVars>>

InitValidName ==
    /\ flow = "is_valid_name"
    /\ pc = "vn_start"
    /\ exc = "none"
    /\ LocIdle
    /\ AtcIdle
    /\ RiIdle
    /\ UtIdle
    /\ NcIdle
    /\ NpIdle
    /\ word \in Words
    /\ vn_ret = "none"
    /\ GpLocals

NextValidName == VnCall

SpecValidName == InitValidName /\ [][NextValidName]_vars

\* ---------------------------------------------------------- get_port_input
\* lines 320-325; a default text is one token
defaults ==
    [port_name |-> <<"ExamplePort">>,
     short_description |-> <<"Example usage of port">>,
     dir_name |-> <<"example_directory">>,
     arg_number |-> 1]

\* what the user may type: nothing, a valid name, names with a disallowed
\* character
NameAnswers == {<<>>, <<"a">>, <<"a", " ">>, <<"/">>}
DescAnswers == {<<>>, <<"d", " ", "d">>}

\* "sup2" stands for the superscript two, a numeric character that is no
\* decimal digit
ArgAnswers == {<<>>, <<"2">>, <<"1", "0">>, <<"x">>, <<"2", "x">>, <<"sup2">>}

Digits == {"0", "1", "2"}
DigitValue(c) == CASE c = "0" -> 0 [] c = "1" -> 1 [] c = "2" -> 2

\* line 352: str.isnumeric()
IsNumeric(str) ==
    str # <<>> /\ \A i \in DOMAIN str : str[i] \in Digits \cup {"sup2"}

\* line 355: int() accepts decimal digits only
IntRaises(str) == \E i \in DOMAIN str : str[i] \notin Digits

RECURSIVE IntOf(_)
IntOf(str) ==
    IF str = <<>> THEN 0
    ELSE 10 * IntOf(SubSeq(str, 1, Len(str) - 1)) + DigitValue(str[Len(str)])

\* lines 328-334: one round of the port-name loop
GpName ==
    /\ pc = "gp_name"
    /\ \E a \in NameAnswers :
         /\ port_name' = a
         /\ IF IsValidName(a) # "valid"
            THEN /\ reprompts < MaxTries
                 /\ reprompts' = reprompts + 1
                 /\ pc' = "gp_name"
            ELSE /\ pc' = "gp_desc"
                 /\ UNCHANGED reprompts
    /\ UNCHANGED <<flow, exc, locVars, atcVars, riVars, utVars, ncVars, apcVars,
                   npVars, aphVars, vnVars, short_description, dir_name,
                   string_arg_number, arg_number, values>>

\* lines 335-337
GpDesc ==
    /\ pc = "gp_desc"
    /\ short_description' \in DescAnswers
    /\ pc' = "gp_dir"
    /\ UNCHANGED <<flow, exc, locVars, atcVars, riVars, utVars, ncVars, apcVars,
                   npVars, aphVars, vnVars, port_name, dir_name,
                   string_arg_number, arg_number, values, reprompts>>

\* lines 338-346: one round of the directory-name loop
GpDir ==
    /\ pc = "gp_dir"
    /\ \E a \in NameAnswers :
         /\ dir_name' = a
         /\ IF IsValidName(a) # "valid"
            THEN /\ reprompts < MaxTries
                 /\ reprompts' = reprompts + 1
                 /\ pc' = "gp_dir"
            ELSE /\ pc' = "gp_arg"
                 /\ UNCHANGED reprompts
    /\ UNCHANGED <<flow, exc, locVars, atcVars, riVars, utVars, ncVars, apcVars,
                   npVars, aphVars, vnVars, port_name, short_description,
                   string_arg_number, arg_number, values>>

\* lines 347-355: the argument count; an answer that is not numeric is
\* reported and arg_number stays unbound
GpArg ==
    /\ pc = "gp_arg"
    /\ \E a \in ArgAnswers :
         /\ string_arg_number' = a
         /\ IF a = <<>>
            THEN arg_number' = 1 /\ pc' = "gp_values" /\ UNCHANGED exc
            ELSE IF ~IsNumeric(a)
                 THEN pc' = "gp_values" /\ UNCHANGED <<arg_number, exc>>
                 ELSE IF IntRaises(a)
                      THEN /\ pc' = "raised"
                           /\ exc' = "ValueError"
                           /\ UNCHANGED arg_number
                      ELSE /\ arg_number' = IntOf(a)
                           /\ pc' = "gp_values"
                           /\ UNCHANGED exc
    /\ UNCHANGED <<flow, locVars, atcVars, riVars, utVars, ncVars, apcVars,
                   npVars, aphVars, vnVars, port_name, short_description,
                   dir_name, values, reprompts>>

\* lines 364-366: an empty value is replaced by its default
OrDefault(v, d) == IF v = <<>> THEN d ELSE v

\* lines 356-367: the dictionary is built (reading arg_number), the blanks
\* are filled in and the dictionary is returned
GpValues ==
    /\ pc = "gp_values"
    /\ IF arg_number = ArgUnbound
       THEN /\ pc' = "raised"
            /\ exc' = "UnboundLocalError"
            /\ UNCHANGED values
       ELSE /\ values' =
                  [port_name |-> OrDefault(port_name, defaults.port_name),
                   short_description |->
                       OrDefault(short_description, defaults.short_description),
                   dir_name |-> OrDefault(dir_name, defaults.dir_name),
                   arg_number |-> arg_number]
            /\ pc' = "gp_ret"
            /\ UNCHANGED exc
    /\ UNCHANGED <<flow, locVars, atcVars, riVars, utVars, ncVars, apcVars,
                   npVars, aphVars, vnVars, port_name, short_description,
                   dir_name, string_arg_number, arg_number, reprompts>>

InitPortInput ==
    /\ flow = "get_port_input"
    /\ pc = "gp_name"
    /\ exc = "none"
    /\ LocIdle
    /\ AtcIdle
    /\ RiIdle
    /\ UtIdle
    /\ NcIdle
    /\ NpIdle
    /\ InIdle

NextPortInput == GpName \/ GpDesc \/ GpDir \/ GpArg \/ GpValues

SpecPortInput == InitPortInput /\ [][NextPortInput]_vars

\* ============================================================ properties

\* lines s..e of ls are the first contiguous run of marker lines
FirstRun(ls, s, e) ==
    /\ 1 <= s /\ s <= e /\ e <= Len(ls)
    /\ \A i \in 1..(s - 1) : ~HasMarker(ls[i])
    /\ \A i \in s..e : HasMarker(ls[i])
    /\ e < Len(ls) => ~HasMarker(ls[e + 1])

\* a topology-inclusion line: text without the marker
IsTopology(line) == ~HasMarker(line) /\ "T" \in Range(line)

TopologyFollowsRun(ls) ==
    \E s, e \in 1..Len(ls) :
        FirstRun(ls, s, e) /\ \E t \in (e + 1)..Len(ls) : IsTopology(ls[t])

\* new is old with the directive as a new line right after line e
InsertedAfter(old, new, e) ==
    /\ Len(new) = Len(old) + 1
    /\ new[e + 1] = Addition
    /\ \A i \in 1..e : new[i] = old[i]
    /\ \A i \in (e + 1)..Len(old) : new[i + 1] = old[i]

C1_Applies ==
    /\ first # Unset
    /\ Addition \notin Range(ReadLines(orig))
    /\ TopologyFollowsRun(ReadLines(orig))

\* C1: when the first run of marker lines is followed later by a topology
\* line and the directive is new, the file after the accepted call is the old
\* file with the directive as a new line immediately after the last line of
\* that run, before every topology line that follows the run, and with every
\* old line unchanged and in its old order.
C1_InsertedBeforeTopology ==
    C1_Applies =>
        \E s, e \in 1..Len(ReadLines(orig)) :
            /\ FirstRun(ReadLines(orig), s, e)
            /\ InsertedAfter(ReadLines(orig), ReadLines(first), e)
            /\ \A t \in (e + 1)..Len(ReadLines(orig)) :
                  IsTopology(ReadLines(orig)[t]) =>
                      /\ ReadLines(first)[t + 1] = ReadLines(orig)[t]
                      /\ t + 1 > e + 1

\* a run of two marker lines, the directive inserted, a topology line after
C1_Witness ==
    /\ C1_Applies
    /\ writes = 1
    /\ \E s \in 1..Len(ReadLines(orig)) : FirstRun(ReadLines(orig), s, s + 1)
    /\ Len(ReadLines(cmake)) = Len(ReadLines(orig)) + 1

CountOf(x, ls) == Cardinality({i \in DOMAIN ls : ls[i] = x})

\* C2: once a call has succeeded, every later call with the same component
\* path leaves the file exactly as the first successful call left it, and
\* the calls never bring the file to hold the directive line twice.
C2_Idempotent ==
    /\ first # Unset => cmake = first
    /\ CountOf(Addition, ReadLines(cmake))
           <= IF CountOf(Addition, ReadLines(orig)) = 0
              THEN 1 ELSE CountOf(Addition, ReadLines(orig))
    /\ Len(ReadLines(cmake)) <= Len(ReadLines(orig)) + 1

\* two accepted calls, the first of which wrote the directive
C2_Witness ==
    /\ pc = "atc_ret"
    /\ accepted >= 2
    /\ writes = 1
    /\ cmake # orig
    /\ cmake = first

NewlinesUpTo(c, p) == Cardinality({i \in 1..p : c[i] = NL})

\* the position of the terminator of line HeaderLines of c, the end of c when
\* c has fewer lines
HeaderEnd(c) ==
    IF NewlinesUpTo(c, Len(c)) < HeaderLines THEN Len(c)
    ELSE CHOOSE p \in 1..Len(c) :
             c[p] = NL /\ NewlinesUpTo(c, p) = HeaderLines

\* lines 12..N of a stub
StubBody(c) == SubSeq(c, HeaderEnd(c) + 1, Len(c))

\* C4: when the destinations and both stubs exist and the user confirms,
\* run_impl succeeds, each destination is its old content followed by
\* exactly lines 12..N of its stub, no other file changes, and both stubs
\* are gone.
C4_MergeAppendsBody ==
    /\ (pc = "ri_ret" /\ gen.hpp # Absent /\ gen.cpp # Absent)
           => ri_ret = "True"
    /\ ri_ret = "True" =>
           /\ gen.hpp # Absent /\ gen.cpp # Absent
           /\ DOMAIN unitFiles = DOMAIN unitOrig
           /\ unitFiles[hpp_dest] = unitOrig[hpp_dest] \o StubBody(gen.hpp)
           /\ unitFiles[cpp_dest] = unitOrig[cpp_dest] \o StubBody(gen.cpp)
           /\ \A n \in DOMAIN unitFiles \ {hpp_dest, cpp_dest} :
                 unitFiles[n] = unitOrig[n]
           /\ stubs = NoStubs

\* a stub of more than 11 lines merged into an empty destination, and one
\* merged into a destination whose last line is unterminated
C4_Witness ==
    /\ pc = "ri_ret"
    /\ ri_ret = "True"
    /\ unitOrig[hpp_dest] = <<>>
    /\ Len(ReadLines(gen.hpp)) > HeaderLines
    /\ unitFiles[hpp_dest] = StubBody(gen.hpp)
    /\ unitFiles[hpp_dest] # <<>>
    /\ unitOrig[cpp_dest] = <<"d">>
    /\ Len(ReadLines(gen.cpp)) > HeaderLines

\* the confirm step of a call is being answered with no
Declining == pc = "atc_confirm" /\ pc' = "atc_ret" /\ atc_ret' = "False"

C12_DeclineStep ==
    /\ Declining => cmake' = cmake /\ writes' = writes /\ exc' = "none"
    /\ cmake' # cmake =>
          /\ pc = "atc_confirm"
          /\ atc_ret' = "True"
          /\ accepted' = accepted + 1
          /\ writes' = writes + 1
    /\ writes' # writes => cmake' # cmake

C12_DeclineInv ==
    /\ accepted = 0 => cmake = orig /\ writes = 0
    /\ (pc = "atc_ret" /\ accepted = 0) => atc_ret = "False"
    /\ (pc = "atc_ret" /\ atc_ret = "False") => accepted < calls

\* C12: a call that is declined returns False and leaves the file exactly
\* as it was before that call, and the file changes only in a step in which
\* a confirmation is accepted (so it is still the original file as long as
\* no confirmation has been accepted).
C12_DeclineUntouched == []C12_DeclineInv /\ [][C12_DeclineStep]_vars

\* a file with the marker and without the directive, the call declined
C12_Witness ==
    /\ flow = "add_to_cmake"
    /\ pc = "atc_ret"
    /\ atc_ret = "False"
    /\ prompts = 1
    /\ ScanIndex(ReadLines(orig)) # 0
    /\ ~AlreadyAdded(ReadLines(orig))
    /\ cmake = orig

\* no line of the original file holds the marker
Malformed == FirstMarker(ReadLines(orig), 1) = 0

\* C13: on a file with no marker line (the empty file included) add_to_cmake
\* raises an error at the scan, returns nothing, never prompts and never
\* writes: the file stays as it was and the directive is inserted nowhere.
C13_MalformedFails ==
    (flow = "add_to_cmake" /\ Malformed) =>
        /\ pc \in {"atc_start", "raised"}
        /\ pc = "raised" => exc = "IndexError"
        /\ atc_ret = "none"
        /\ prompts = 0
        /\ writes = 0
        /\ cmake = orig
        /\ ~AlreadyAdded(ReadLines(cmake))

\* the scan failed on a file of two lines without the marker
C13_Witness ==
    /\ flow = "add_to_cmake"
    /\ pc = "raised"
    /\ exc = "IndexError"
    /\ Malformed
    /\ Len(ReadLines(orig)) = 2
    /\ cmake = orig

\* the scan failed on the empty file
C13_WitnessEmpty ==
    /\ flow = "add_to_cmake"
    /\ pc = "raised"
    /\ orig = <<>>

\* the .cpp candidates of the unit directory, and those whose own file name
\* holds the token Common
CppCandidates == DOMAIN unitOrig \cap CppNames
CommonNamed == CppCandidates \cap {"ACommon.cpp"}

\* C15: once the destinations are chosen, the .hpp destination is a .hpp
\* file of the unit directory, and the .cpp destination is a candidate whose
\* file name holds Common when there is one, else the candidate with the
\* shortest file name, whatever the path of the unit directory.
C15_PrefersCommonName ==
    hpp_dest # "none" =>
        /\ hpp_dest \in DOMAIN unitOrig \cap HppNames
        /\ cpp_dest \in CppCandidates
        /\ IF CommonNamed # {}
           THEN cpp_dest \in CommonNamed
           ELSE \A n \in CppCandidates : NameLen(cpp_dest) <= NameLen(n)

\* C16: on a file that already holds the directive line, add_to_cmake
\* raises nothing, writes nothing, and every call that is not declined
\* returns True.
C16_PresentReturnsTrue ==
    (flow = "add_to_cmake" /\ AlreadyAdded(ReadLines(orig))) =>
        /\ exc = "none"
        /\ writes = 0
        /\ cmake = orig
        /\ (pc = "atc_ret" /\ accepted = calls) => atc_ret = "True"

\* C17: on a file with at least one marker line add_to_cmake raises
\* nothing, and the first accepted call with a new directive leaves the old
\* file with the directive as a new line right after the last line of the
\* first run of marker lines, also when that run ends the file.
C17_InsertsAfterBlock ==
    (flow = "add_to_cmake" /\ ~Malformed) =>
        /\ exc = "none"
        /\ (first # Unset /\ ~AlreadyAdded(ReadLines(orig))) =>
               \E s, e \in 1..Len(ReadLines(orig)) :
                   /\ FirstRun(ReadLines(orig), s, e)
                   /\ InsertedAfter(ReadLines(orig), ReadLines(first), e)

\* line k of ls is the first line that is exactly set(SOURCE_FILES
PortMarkerAt(ls, k) ==
    /\ k \in 1..Len(ls)
    /\ ls[k] = <<"S", NL>>
    /\ \A j \in 1..(k - 1) : ls[j] # <<"S", NL>>

NoPortMarker(ls) == \A j \in 1..Len(ls) : ls[j] # <<"S", NL>>

\* new is old with the entry as a new line right after line k
EntryInsertedAfter(old, new, k) ==
    /\ Len(new) = Len(old) + 1
    /\ new[k + 1] = <<"E", NL>>
    /\ \A i \in 1..k : new[i] = old[i]
    /\ \A i \in (k + 1)..Len(old) : new[i + 1] = old[i]

C18_Step ==
    /\ (pc = "apc_confirm" /\ ap_ret' = "True") =>
          \E k \in 1..Len(ReadLines(portCmake)) :
              /\ PortMarkerAt(ReadLines(portCmake), k)
              /\ EntryInsertedAfter(ReadLines(portCmake),
                                    ReadLines(portCmake'), k)
    /\ (pc = "apc_confirm" /\ ap_ret' = "False") => portCmake' = portCmake
    /\ portCmake' # portCmake => pc = "apc_confirm" /\ ap_ret' = "True"

C18_Inv ==
    flow = "add_port_to_cmake" =>
        /\ NoPortMarker(ReadLines(apOrig)) =>
              /\ pc \in {"apc_start", "raised"}
              /\ pc = "raised" => exc = "IndexError"
              /\ portCmake = apOrig
              /\ ap_ret = "none"
        /\ ~NoPortMarker(ReadLines(apOrig)) => exc = "none"
        /\ CountOf(<<"E", NL>>, ReadLines(portCmake))
              = CountOf(<<"E", NL>>, ReadLines(apOrig)) + apAccepted
        /\ apAccepted = 0 => portCmake = apOrig

\* C18: on a port build-list file with a line that is exactly
\* set(SOURCE_FILES, an accepted call inserts the entry as a new line right
\* after the first such line and keeps every other line in place; there is
\* no duplicate check, so the file holds one more entry line per accepted
\* call; a declined call returns False and leaves the file alone; with no
\* such line the call raises an error and the file is unchanged.
C18_PortEntryAfterMarker == []C18_Inv /\ [][C18_Step]_vars

\* two accepted calls on a file with two marker lines and no entry
C18_Witness ==
    /\ flow = "add_port_to_cmake"
    /\ pc = "apc_ret"
    /\ apAccepted = 2
    /\ CountOf(<<"S", NL>>, ReadLines(apOrig)) = 2
    /\ CountOf(<<"E", NL>>, ReadLines(apOrig)) = 0
    /\ CountOf(<<"E", NL>>, ReadLines(portCmake)) = 2
    /\ ReadLines(portCmake)[2] = <<"E", NL>>

\* the disallowed characters
Disallowed ==
    {"#", "%", "&", "{", "}", "/", "\\", "<", ">", "*", "?", " ", "$", "!",
     "'", "\"", ":", "@", "+", "grave", "|", "="}

\* c comes before every other disallowed character of w in the scan order
FirstInScanOrder(c, w) ==
    \E k \in 1..Len(invalid_characters) :
        /\ invalid_characters[k] = c
        /\ \A j \in 1..(k - 1) : invalid_characters[j] \notin Range(w)

C14_Result ==
    vn_ret # "none" =>
        /\ vn_ret = "valid" <=> Range(word) \cap Disallowed = {}
        /\ vn_ret # "valid" =>
              /\ vn_ret \in Range(word) \cap Disallowed
              /\ FirstInScanOrder(vn_ret, word)
        /\ word = GoodName => vn_ret = "valid"
        /\ word = BadName => vn_ret = " "
        /\ word = SlashName => vn_ret = "/"

\* a call of is_valid_name changes nothing but its result
C14_NoEffect ==
    pc = "vn_start" =>
        /\ word' = word
        /\ UNCHANGED <<flow, exc, locVars, atcVars, riVars, utVars, ncVars,
                       apcVars, npVars, aphVars, gpVars>>

\* C14: is_valid_name returns "valid" exactly when the word holds no
\* disallowed character; otherwise it returns the disallowed character of
\* the word that comes first in the scan order of the list; good_name gives
\* "valid", "bad name" gives " " and "a/b" gives "/"; the call changes no
\* state.
C14_ValidNameResult == []C14_Result /\ [][C14_NoEffect]_vars

\* a word with two disallowed characters, the later one first in scan order
C14_Witness ==
    /\ pc = "vn_ret"
    /\ word = <<"=", "#">>
    /\ vn_ret = "#"

\* C19: get_port_input raises nothing, and what it returns is validated:
\* the port name and the directory name hold no disallowed character, no
\* text value is empty, and arg_number is a number, 1 for an empty answer.
C19_ReturnsValidated ==
    flow = "get_port_input" =>
        /\ exc = "none"
        /\ pc = "gp_ret" =>
              /\ Range(values.port_name) \cap Disallowed = {}
              /\ Range(values.dir_name) \cap Disallowed = {}
              /\ values.port_name # <<>>
              /\ values.short_description # <<>>
              /\ values.dir_name # <<>>
              /\ values.arg_number \in Nat
              /\ string_arg_number = <<>> => values.arg_number = 1

\* the artifacts add_unit_tests relocates
FixedArtifacts ==
    {"Tester.hpp", "Tester.cpp", "TesterBase.hpp", "TesterBase.cpp",
     "GTestBase.hpp", "GTestBase.cpp", "TestMain.cpp"}

C20_Step ==
    /\ (pc = "ut_move" /\ testTree = "test/ut") =>
          /\ utFiles' = utFiles \cup (rootArtifacts \cap FixedArtifacts)
          /\ rootArtifacts' = rootArtifacts \ FixedArtifacts
          /\ pc' = "ut_ret"
          /\ exc' = "none"
    /\ (utFiles' # utFiles /\ testTree = "test/ut" /\ testTree' = testTree) =>
          pc = "ut_move" /\ buildLog = <<"impl-ut">>
    /\ (pc = "ut_start" /\ pc' # "ut_execute" /\ testTree # "none") =>
          /\ testTree' = "none"
          /\ utFiles' = {}
          /\ rootArtifacts' = rootArtifacts
          /\ buildLog' = <<>>
          /\ pc' = "ut_ret"
          /\ exc' = "none"
    /\ buildLog' # buildLog => pc = "ut_execute"

C20_Inv ==
    flow = "add_unit_tests" =>
        /\ pc \in {"ut_start", "ut_execute"} => buildLog = <<>>
        /\ pc = "ut_move" => buildLog = <<"impl-ut">>
        /\ (pc = "ut_ret" /\ buildLog = <<>>) =>
              testTree = "none" /\ utFiles = {}
        /\ (pc = "ut_ret" /\ buildLog # <<>>) =>
              rootArtifacts \cap FixedArtifacts = {}

\* C20: with the test tree scaffolded, an accepted call runs the build
\* first and then moves exactly the artifacts of the fixed set that are in
\* the unit root into test/ut, skipping the missing ones without an error
\* and leaving every other file; a declined call runs no build, moves
\* nothing and removes the whole test tree.
C20_BuildThenMove == []C20_Inv /\ [][C20_Step]_vars

\* accepted: two artifacts moved, the others skipped, another file left
C20_Witness ==
    /\ flow = "add_unit_tests"
    /\ pc = "ut_ret"
    /\ buildLog = <<"impl-ut">>
    /\ utFiles = {"Old.cpp", "Tester.hpp", "TestMain.cpp"}
    /\ rootArtifacts = {"Other.cpp"}
    /\ exc = "none"

\* declined: the scaffolded tree is gone, the unit root is as it was
C20_WitnessDecline ==
    /\ flow = "add_unit_tests"
    /\ pc = "ut_ret"
    /\ buildLog = <<>>
    /\ testTree = "none"
    /\ rootArtifacts = {"Tester.hpp", "Other.cpp"}

\* line 46 on the unit directory as it was: no .hpp or no .cpp destination
NoDestination ==
    \/ DOMAIN unitOrig \cap HppNames = {}
    \/ DOMAIN unitOrig \cap CppNames = {}

\* line 65 on what the build left: a stub is missing after the build ran
StubMissingAfterBuild ==
    buildLog # <<>> /\ (gen.hpp = Absent \/ gen.cpp = Absent)

\* C11: when a destination is missing, or a stub is missing after the build
\* ran, run_impl returns False, no destination is modified and no stub is
\* deleted; and at no point is one destination merged without the call
\* ending in success with both merged and both stubs removed.
C11_MergeAllOrNothing ==
    /\ (pc = "ri_ret" /\ (NoDestination \/ StubMissingAfterBuild)) =>
           ri_ret = "False" /\ unitFiles = unitOrig /\ stubs = gen
    /\ NoDestination => buildLog = <<>> /\ hpp_dest = "none"
    /\ (unitFiles # unitOrig \/ stubs # gen) =>
           /\ ri_ret = "True"
           /\ gen.hpp # Absent /\ gen.cpp # Absent
           /\ stubs = NoStubs

\* the build left the .hpp stub only; run_impl returned
C11_Witness ==
    /\ pc = "ri_ret"
    /\ buildLog = <<"impl">>
    /\ gen.hpp # Absent /\ Len(ReadLines(gen.hpp)) > HeaderLines
    /\ gen.cpp = Absent
    /\ ri_ret = "False"
    /\ unitFiles = unitOrig
    /\ stubs = gen

\* the stage events of new_component, in the order of the flow
StageOrder ==
    <<"created", "register", "registered", "regenerated", "impl",
      "implemented", "tests", "scaffolded">>

StagesUpTo(k) == SubSeq(StageOrder, 1, k)

C7_StageInv ==
    /\ IsPrefix(log, StageOrder)
    /\ compCreated <=> Len(log) >= 1
    /\ pc \in {"fn_start", "fn_test", "fn_body", "fn_ret"} => log = StagesUpTo(1)
    /\ pc \in {"atc_start", "atc_confirm", "atc_ret"} => log = StagesUpTo(2)
    /\ (lines # <<>> \/ prompts > 0) => Len(log) >= 2
    /\ Len(log) >= 3 => atc_ret = "True"
    /\ pc = "rg_start" => log = StagesUpTo(3)
    /\ pc \in {"ri_start", "ri_confirm", "ri_execute", "ri_merge", "ri_ret"}
          => log = StagesUpTo(5)
    /\ (hpp_dest # "none" \/ ri_ret # "none" \/ buildLog # <<>>)
          => Len(log) >= 5
    /\ Len(log) >= 6 => ri_ret = "True"
    /\ pc \in {"ut_start", "ut_execute", "ut_move", "ut_ret"}
          => log = StagesUpTo(7)
    /\ (utFiles # {} \/ rootArtifacts # {} \/ Len(buildLog) > 1)
          => Len(log) >= 7
    /\ exc # "none" => pc \in {"raised", "nc_done", "propagated"}
    /\ nc_ret # "none" => pc = "nc_done"

C7_NoUndo ==
    /\ compCreated => compCreated'
    /\ IsPrefix(log, log')
    /\ cmake' # cmake =>
          \E k \in 1..(Len(ReadLines(cmake)) + 1) :
              ReadLines(cmake') = InsertAt(ReadLines(cmake), k, Addition)
    /\ \A n \in DOMAIN unitFiles :
          n \in DOMAIN unitFiles' /\ IsPrefix(unitFiles[n], unitFiles'[n])

\* C7: the stages of new_component run only in the order created,
\* registered (add_to_cmake succeeded, then the cache regenerated),
\* implemented, test-scaffolded; a stage runs only when the one before it
\* succeeded, nothing runs after a failed or declined stage, and no step
\* takes back the created directory, the inserted directive or merged code.
C7_StagesInOrder == []C7_StageInv /\ [][C7_NoUndo]_vars

\* a run through all four stages
C7_Witness ==
    /\ pc = "nc_done"
    /\ log = StageOrder
    /\ cmake # orig
    /\ utFiles = TestFiles

\* C8 as stated: after the registration prompt is declined the flow still
\* attempts the implementation step.
C8_DeclineStillAttemptsImpl ==
    (flow = "new_component" /\ pc = "nc_done" /\ atc_ret = "False")
        => "impl" \in Range(log)

\* C8, amended: declining the registration prompt ends new_component: the
\* build-list file is untouched, no regeneration, implementation or
\* unit-test step is attempted, the created component directory stays, and 0
\* is returned.
C8_DeclineEndsFlow ==
    (flow = "new_component" /\ atc_ret = "False") =>
        /\ pc \in {"atc_ret", "nc_done"}
        /\ pc = "nc_done" => nc_ret = "0"
        /\ log = StagesUpTo(2)
        /\ compCreated
        /\ cmake = orig /\ writes = 0
        /\ buildLog = <<>> /\ ri_ret = "none" /\ hpp_dest = "none"
        /\ unitFiles = unitOrig
        /\ utFiles = {} /\ rootArtifacts = {}
        /\ exc = "none"

\* new_component has returned after the prompt was declined
C8_Witness ==
    /\ flow = "new_component"
    /\ pc = "nc_done"
    /\ atc_ret = "False"
    /\ prompts = 1

\* C9: a failure of the cache regeneration (the invalid-build condition
\* included) or of a build execution never leaves the orchestrator as an
\* exception: it is caught and 1 is returned.
C9_ToolFailuresCaught ==
    exc \in {"CMakeInvalidBuildException", "CMakeExecutionException"} =>
        /\ pc # "propagated"
        /\ pc = "nc_done" => nc_ret = "1"
        /\ pc = "np_done" => np_ret = "1"

\* C10: a port-definition file that exists in the working directory or in
\* the port directory before new_port runs keeps its content.
C10_ExistingNotOverwritten ==
    /\ xmlOrig.cwd # Absent => cwdXml = xmlOrig.cwd
    /\ xmlOrig.dir # Absent => dirXml = xmlOrig.dir

\* (ii) of C3: build-list files at the project root and at a deployment
\* directory that is no ancestor of the component, none at a component
\* ancestor below the root
RootAndDeploymentOnly ==
    /\ proj_root # NoneP
    /\ proj_root \in cmakeDirs
    /\ deployment \in cmakeDirs
    /\ deployment # proj_root
    /\ IsPrefix(proj_root, deployment)
    /\ IsPrefix(proj_root, Parent(component_dir))
    /\ ~IsPrefix(deployment, Parent(component_dir))
    /\ \A d \in Ancestors(Parent(component_dir)) :
          (IsPrefix(proj_root, d) /\ d # proj_root) => d \notin cmakeDirs

\* C3: pass 1 never examines the project root itself, so the project root's
\* build-list file is only ever returned by pass 2, and with files at the
\* project root and at a deployment that is no ancestor of the component the
\* deployment's file is the one returned.
C3_PassOneExcludesRoot ==
    /\ \A e \in examined : e[1] = 1 => e[2] # proj_root
    /\ (pc = "fn_ret" /\ RootAndDeploymentOnly) => found = deployment

\* C5: with a defined project root every call of find_nearest_cmake_lists
\* terminates: it eventually returns, without raising.
C5_LocatorTerminates ==
    (proj_root # NoneP) => <>(pc = "fn_ret" /\ exc = "none")

\* C6: with an undefined project root the locator raises nothing, examines
\* no directory and returns none.
C6_UndefinedRootReturnsNone ==
    (proj_root = NoneP) =>
        /\ exc = "none"
        /\ examined = {}
        /\ pc \in {"fn_start", "fn_ret"}
        /\ pc = "fn_ret" => found = NoneP

=============================================================================
